---- MODULE Spec2Model ----
(***************************************************************************)
(* A model of flowjax's structural bijections (bijections/utils.py: Chain, *)
(* Permute, Flip) and of the block autoregressive network                  *)
(* (bijections/block_autoregressive_network.py).                           *)
(*                                                                         *)
(* The program is a library of pure methods on immutable objects.  The     *)
(* state is the objects a caller holds and the last call it made: its      *)
(* arguments, what it returned and what it raised.                         *)
(*                                                                         *)
(* jax arrays are zero-based: a 1-D array of length n is a function on     *)
(* 0..n-1.  A Python list is a sequence.                                   *)
(***************************************************************************)
EXTENDS Integers, Sequences, FiniteSets, TLC

VARIABLES permute, chain, bnaf, arrays, point, cond, call, prev, locals

vars ==
    <<permute, chain, bnaf, arrays, point, cond, call, prev, locals>>

(***************************************************************************)
(* Bounds of the model.                                                    *)
(***************************************************************************)
\* the largest array dimension tried
MaxDim == 3
\* the longest list of bijections given to Chain
MaxChain == 2
\* the largest dim of a network, which is its number of blocks
MaxNetDim == 3
\* the largest block_dim of a network and the largest side of a block
MaxBlockDim == 2
\* the largest depth of a network
MaxDepth == 2
\* the largest random key
MaxKey == 1
\* the longest flat vector handed to _3d_log_det
MaxFlat == 4

(***************************************************************************)
(* 1-D arrays.                                                             *)
(***************************************************************************)
Size(a) == Cardinality(DOMAIN a)

\* jnp.arange(n)
arange(n) == [i \in 0..(n - 1) |-> i]

\* jnp.array([]): the default condition of every method
EmptyArray == arange(0)

\* all arrays of length n with entries in S
Arrays(n, S) == [0..(n - 1) -> S]

\* position of a[i] in the ascending (stable) order of a
Rank(a, i) ==
    Cardinality({k \in DOMAIN a : a[k] < a[i] \/ (a[k] = a[i] /\ k < i)})

\* jnp.argsort(a): the indices that sort a
argsort(a) == [j \in DOMAIN a |-> CHOOSE i \in DOMAIN a : Rank(a, i) = j]

\* a.sort(): the sorted copy of a
sort(a) == [j \in DOMAIN a |-> a[argsort(a)[j]]]

\* x[idx]: integer-array indexing (every index in range)
Take(x, idx) == [i \in DOMAIN idx |-> x[idx[i]]]

\* jnp.flip(x)
flip(x) == [i \in DOMAIN x |-> x[Size(x) - 1 - i]]

RECURSIVE SumTo(_, _)
SumTo(a, n) == IF n = 0 THEN 0 ELSE a[n - 1] + SumTo(a, n - 1)

\* a.sum()
SumArr(a) == SumTo(a, Size(a))

(***************************************************************************)
(* Inputs.                                                                 *)
(***************************************************************************)
\* index arrays handed to Permute: valid permutations, repeated indices,
\* missing indices, negative and too large indices
IndexArrays == UNION {Arrays(n, (-1)..n) : n \in 0..MaxDim}

\* points of dimension n: every 0/1 vector, and the one whose entries all
\* differ
Points(n) == Arrays(n, {0, 1}) \cup {arange(n)}

\* points of dimension n over two values
BinaryPoints(n) == Arrays(n, {0, 1})

\* condition vectors: the default empty one and a non-empty one
Conditions == {EmptyArray, [i \in {0} |-> 1]}

(***************************************************************************)
(* Calls.  The caller holds one array, point: its input at first, then     *)
(* what the last call returned, and one condition vector, which it passes  *)
(* to every call.  call is the last call, prev the one before it, so that  *)
(* call.x = prev.ret whenever both are method calls.                       *)
(***************************************************************************)
NoObject == [type |-> "none"]

NoCall ==
    [op |-> "none", x |-> EmptyArray, condition |-> EmptyArray,
     ret |-> EmptyArray, logdet |-> 0, raised |-> ""]

\* a call that returned the array ret
Returned(op, x, condition, ret) ==
    [op |-> op, x |-> x, condition |-> condition, ret |-> ret, logdet |-> 0,
     raised |-> ""]

\* a call that returned the pair (ret, logdet)
ReturnedPair(op, x, condition, pair) ==
    [op |-> op, x |-> x, condition |-> condition, ret |-> pair[1],
     logdet |-> pair[2], raised |-> ""]

\* a call that raised and returned nothing
Raised(op, x, exc) ==
    [op |-> op, x |-> x, condition |-> EmptyArray, ret |-> EmptyArray,
     logdet |-> 0, raised |-> exc]

\* an uncaught exception ends the caller
Running == call.raised = ""

\* no 3-D array: not computed yet
NoArray == [shape |-> <<>>, at |-> <<>>]

\* what the last call of a network method or of a block-algebra function
\* left behind besides its result: none yet
NoLocals ==
    [layer_calls |-> 0, returned |-> FALSE, log_det_3ds |-> <<>>,
     logdet_3d |-> NoArray, n_blocks |-> 0]

\* the caller holds no 3-D arrays
NoArrays ==
    [A |-> NoArray, B |-> NoArray, C |-> NoArray, AB |-> NoArray,
     AB_C |-> NoArray, BC |-> NoArray, A_BC |-> NoArray]

(***************************************************************************)
(* Permute (utils.py).                                                     *)
(***************************************************************************)
\* an assert that only checks that every index is in range
PermuteAssertInRange(permutation) ==
    \A i \in DOMAIN permutation :
        permutation[i] >= 0 /\ permutation[i] < Size(permutation)

\* the assert of Permute.__init__

PermuteAssert(permutation) ==
    \A i \in DOMAIN permutation :
        sort(permutation)[i] = arange(Size(permutation))[i]

\* inverse_permutation as a copy of permutation
PermuteNewNoArgsort(permutation) ==
    [type |-> "Permute", permutation |-> permutation,
     inverse_permutation |-> permutation]

\* the fields Permute.__init__ sets once the assert has passed
PermuteNew(permutation) ==
    [type |-> "Permute", permutation |-> permutation,
     inverse_permutation |-> argsort(permutation)]

PermuteTransform(self, x, condition) == Take(x, self.permutation)

\* a log-determinant that counts the moved entries
PermuteTaldCounting(self, x, condition) ==
    <<Take(x, self.permutation),
      Cardinality({i \in DOMAIN x : self.permutation[i] # i})>>

PermuteTald(self, x, condition) == <<Take(x, self.permutation), 0>>

PermuteInverse(self, y, condition) == Take(y, self.inverse_permutation)

(***************************************************************************)
(* Flip (utils.py).                                                        *)
(***************************************************************************)
FlipNew == [type |-> "Flip"]

FlipTransform(x, condition) == flip(x)

FlipTald(x, condition) == <<flip(x), 0>>

FlipInverse(y, condition) == flip(y)

(***************************************************************************)
(* A child of a Chain that is neither a Permute nor a Flip: any other      *)
(* implementation of the Bijection interface.  Its point and its           *)
(* log-determinant depend on the input point and on the condition, and     *)
(* it does not commute with a reordering of the entries.                   *)
(***************************************************************************)
OpaqueNew == [type |-> "Opaque"]

OpaqueTransform(x, condition) ==
    [i \in DOMAIN x |-> (x[i] + i + SumArr(condition)) % 2]

OpaqueLogDet(x, condition) == 1 + SumArr(x) + 2 * SumArr(condition)

OpaqueTald(x, condition) ==
    <<OpaqueTransform(x, condition), OpaqueLogDet(x, condition)>>

OpaqueInverse(y, condition) ==
    [i \in DOMAIN y |-> (y[i] - i - SumArr(condition)) % 2]

(***************************************************************************)
(* Dynamic dispatch on a bijection.                                        *)
(***************************************************************************)
BijTransform(b, x, condition) ==
    CASE b.type = "Permute" -> PermuteTransform(b, x, condition)
      [] b.type = "Flip" -> FlipTransform(x, condition)
      [] b.type = "Opaque" -> OpaqueTransform(x, condition)

BijTald(b, x, condition) ==
    CASE b.type = "Permute" -> PermuteTald(b, x, condition)
      [] b.type = "Flip" -> FlipTald(x, condition)
      [] b.type = "Opaque" -> OpaqueTald(x, condition)

BijInverse(b, y, condition) ==
    CASE b.type = "Permute" -> PermuteInverse(b, y, condition)
      [] b.type = "Flip" -> FlipInverse(y, condition)
      [] b.type = "Opaque" -> OpaqueInverse(y, condition)

(***************************************************************************)
(* Chain (utils.py).                                                       *)
(***************************************************************************)
ChainNew(bijections) == [type |-> "Chain", bijections |-> bijections]

\* the loop of Chain.transform from the i-th child on
RECURSIVE ChainTransformLoop(_, _, _, _)
ChainTransformLoop(bijections, i, z, condition) ==
    IF i > Len(bijections) THEN z
    ELSE ChainTransformLoop(bijections, i + 1,
                            BijTransform(bijections[i], z, condition),
                            condition)

ChainTransform(self, x, condition) ==
    ChainTransformLoop(self.bijections, 1, x, condition)

\* the loop of Chain.transform_and_log_abs_det_jacobian from the i-th child on
RECURSIVE ChainTaldLoop(_, _, _, _, _)
ChainTaldLoop(bijections, i, z, log_abs_det_jac, condition) ==
    IF i > Len(bijections) THEN <<z, log_abs_det_jac>>
    ELSE LET r == BijTald(bijections[i], z, condition)
         IN  ChainTaldLoop(bijections, i + 1, r[1], log_abs_det_jac + r[2],
                           condition)

\* every child's log-determinant taken at the chain's input
ChainTaldAtInput(self, x, condition) ==
    <<ChainTransform(self, x, condition),
      SumTo([i \in 0..(Len(self.bijections) - 1) |->
                 BijTald(self.bijections[i + 1], x, condition)[2]],
            Len(self.bijections))>>

ChainTald(self, x, condition) ==
    ChainTaldLoop(self.bijections, 1, x, 0, condition)

\* the loop of Chain.inverse: the children from the i-th down to the first
RECURSIVE ChainInverseLoop(_, _, _, _)
ChainInverseLoop(bijections, i, x, condition) ==
    IF i < 1 THEN x
    ELSE ChainInverseLoop(bijections, i - 1,
                          BijInverse(bijections[i], x, condition), condition)

\* the children's inverses in list order
ChainInverseForward(self, z, condition) ==
    LET n == Len(self.bijections)
    IN  ChainInverseLoop([i \in 1..n |-> self.bijections[n + 1 - i]], n, z,
                         condition)

ChainInverse(self, z, condition) ==
    ChainInverseLoop(self.bijections, Len(self.bijections), z, condition)

(***************************************************************************)
(* Block Jacobians (block_autoregressive_network.py).  A 3-D array is its  *)
(* shape and its entries, indexed from 0.  The entries are log-magnitudes  *)
(* and the arithmetic on them is exact: an entry is stored as the natural  *)
(* number e whose logarithm it is, so that -inf is stored as 0, the sum    *)
(* of two entries as the product of their numbers, and exp(a - s) is the   *)
(* fraction a / s.  nan is an entry of its own.                            *)
(***************************************************************************)
\* -jnp.inf
NegInf == 0

\* nan: what -inf - (-inf) evaluates to
NaN == -1

Idx(n) == 0..(n - 1)

\* the function g with every value computed once, when it is built
Eager(g) == g @@ g

\* the array of shape (n, r, c) whose entry at (b, i, j) is f(b, i, j)
Array3(n, r, c, f(_, _, _)) ==
    [shape |-> <<n, r, c>>,
     at |-> Eager([t \in Idx(n) \X Idx(r) \X Idx(c) |->
                      f(t[1], t[2], t[3])])]

\* an operation on arrays whose shapes do not fit raised
Broken == [shape |-> <<"TypeError">>, at |-> <<>>]

IsArray3(a) == Len(a.shape) = 3

\* a diagonal that starts at column 1
_3d_log_det_shifted(vals, n_blocks) ==
    LET d == Size(vals) \div n_blocks
    IN  IF n_blocks * d # Size(vals) THEN Broken
        ELSE Array3(n_blocks, d, d,
                    LAMBDA b, i, j : IF j = (i + 1) % d THEN vals[b * d + i]
                                     ELSE NegInf)

\* _3d_log_det(vals, n_blocks): vals.reshape(n_blocks, d) does not fit
\* unless n_blocks * d is the length of vals
_3d_log_det(vals, n_blocks) ==
    LET d == Size(vals) \div n_blocks
    IN  IF n_blocks * d # Size(vals) THEN Broken
        ELSE Array3(n_blocks, d, d,
                    LAMBDA b, i, j : IF i = j THEN vals[b * d + i]
                                     ELSE NegInf)

Max2(a, b) == IF a >= b THEN a ELSE b

\* jnp.amax over the entries f(0), ..., f(n - 1): nan if one of them is
RECURSIVE AMaxTo(_, _)
AMaxTo(f(_), n) ==
    IF n = 1 THEN f(0)
    ELSE LET m == AMaxTo(f, n - 1)
         IN  IF m = NaN \/ f(n - 1) = NaN THEN NaN ELSE Max2(m, f(n - 1))

\* the sum over k < n of f(k)
RECURSIVE SumOf(_, _)
SumOf(f(_), n) == IF n = 0 THEN 0 ELSE f(n - 1) + SumOf(f, n - 1)

\* jnp.matmul(jnp.exp(x - x_shift), jnp.exp(y - y_shift)) at (b, i, j), as
\* the fraction num / den; nan when a shift is nan or -inf (exp of
\* -inf - (-inf))
ShiftedProduct(x, y, xs, ys, b, i, j) ==
    IF xs = NaN \/ ys = NaN \/ xs = NegInf \/ ys = NegInf
    THEN [nan |-> TRUE, num |-> 0, den |-> 1]
    ELSE [nan |-> FALSE,
          num |-> SumOf(LAMBDA k : x.at[<<b, i, k>>] * y.at[<<b, k, j>>],
                        x.shape[3]),
          den |-> xs * ys]

\* jnp.log(q) + x_shift + y_shift
LogPlusShifts(q, xs, ys) ==
    IF q.nan THEN NaN ELSE (q.num * xs * ys) \div q.den

\* jnp.log(q) + x_shift + x_shift
LogPlusShiftTwice(q, xs, ys) ==
    IF q.nan THEN NaN ELSE (q.num * xs * xs) \div q.den

\* the arrays fit: equal numbers of blocks, and x's columns are y's rows
Fit(x, y) ==
    /\ IsArray3(x) /\ IsArray3(y)
    /\ x.shape[1] = y.shape[1] /\ x.shape[3] = y.shape[2]
    /\ x.shape[3] >= 1

logmatmulexp_with(x, y, plus(_, _, _)) ==
    IF ~Fit(x, y) THEN Broken
    ELSE Array3(x.shape[1], x.shape[2], y.shape[3],
                LAMBDA b, i, j :
                    LET x_shift ==
                            AMaxTo(LAMBDA k : x.at[<<b, i, k>>], x.shape[3])
                        y_shift ==
                            AMaxTo(LAMBDA k : y.at[<<b, k, j>>], y.shape[2])
                    IN  plus(ShiftedProduct(x, y, x_shift, y_shift, b, i, j),
                             x_shift, y_shift))

\* x_shift added back twice, y_shift never
logmatmulexp_shift_twice(x, y) == logmatmulexp_with(x, y, LogPlusShiftTwice)

logmatmulexp(x, y) == logmatmulexp_with(x, y, LogPlusShifts)

\* the entries of a in the order of their indices
Entries(a) ==
    LET n == a.shape[1]
        r == a.shape[2]
        c == a.shape[3]
    IN  [q \in 1..(n * r * c) |->
            a.at[<<(q - 1) \div (r * c), ((q - 1) \div c) % r, (q - 1) % c>>]]

\* a.sum(): the sum of all entries of a.  The sum of log-magnitudes is the
\* log of a product too large for the integers of the model: the sum is
\* kept as the list of its terms
LogSum(a) == [terms |-> Entries(a)]

\* finite log-magnitudes at n units, drawn from seed
SeedVals(seed, n) == [i \in Idx(n) |-> 1 + ((seed + i) % 2)]

\* a block Jacobian of shape (n, r, c) with every entry finite, drawn from
\* seed
DenseJacobian(seed, n, r, c) ==
    Array3(n, r, c,
           LAMBDA b, i, j : 1 + ((seed + b + i * (j + 1) + seed * i * j) % 2))

(***************************************************************************)
(* The layers of the network.  A point that passes through the network     *)
(* is the input it started from and the layers applied to it so far, with  *)
(* its length: the arithmetic of a layer on the entries is not modelled.   *)
(***************************************************************************)
\* the input numbered src, of length size
Input(size, src) == [size |-> size, src |-> src, path |-> <<>>]

\* a condition argument: an array, or None
Given(condition) == [given |-> TRUE, value |-> condition]
None == [given |-> FALSE, value |-> EmptyArray]

\* a layer call that raised
LayerFailed == [ok |-> FALSE, point |-> Input(0, 0), jac |-> Broken]

\* BlockAutoregressiveLinear(key, n_blocks, block_shape, cond_dim)
BlockAutoregressiveLinear(key, n_blocks, block_shape, cond_dim) ==
    [type |-> "BlockAutoregressiveLinear", key |-> key,
     n_blocks |-> n_blocks, block_shape |-> block_shape,
     cond_dim |-> cond_dim]

\* a masked-linear layer called on x: block_shape is (outputs, inputs) per
\* block; the call returns n_blocks * outputs values and the layer's block
\* Jacobian of shape (n_blocks, outputs, inputs), which its weights (drawn
\* from its key) alone determine
BlockAutoregressiveLinearCall(self, x, condition) ==
    IF \/ x.size # self.n_blocks * self.block_shape[2]
       \/ (self.cond_dim > 0 /\ ~condition.given)
       \/ (condition.given /\ Size(condition.value) # self.cond_dim)
    THEN LayerFailed
    ELSE [ok |-> TRUE,
          point |-> [size |-> self.n_blocks * self.block_shape[1],
                     src |-> x.src,
                     path |-> Append(x.path, <<"linear", self.key, condition>>)],
          jac |-> DenseJacobian(self.key, self.n_blocks, self.block_shape[1],
                                self.block_shape[2])]

\* _TanhBNAF(n_blocks)
_TanhBNAF(n_blocks) == [type |-> "_TanhBNAF", n_blocks |-> n_blocks]

\* _tanh_log_grad(x): one finite value per unit, which x determines
_tanh_log_grad(x) == SeedVals(x.src + Len(x.path), x.size)

\* _TanhBNAF.__call__: the condition is ignored
_TanhBNAFCall(self, x, condition) ==
    LET log_det == _tanh_log_grad(x)
        jac == _3d_log_det(log_det, self.n_blocks)
    IN  IF jac = Broken THEN LayerFailed
        ELSE [ok |-> TRUE,
              point |-> [x EXCEPT !.path = Append(x.path, <<"tanh">>)],
              jac |-> jac]

\* layer(x, condition)
LayerCall(layer, x, condition) ==
    IF layer.type = "BlockAutoregressiveLinear"
    THEN BlockAutoregressiveLinearCall(layer, x, condition)
    ELSE _TanhBNAFCall(layer, x, condition)

(***************************************************************************)
(* BlockAutoregressiveNetwork.                                             *)
(***************************************************************************)
\* random.split(key, n)
split(key, n) == [i \in 1..n |-> key * n + i]

\* [a] * n for a Python list
Repeat(a, n) == [i \in 1..(IF n > 0 THEN n ELSE 0) |-> a]

Min2(a, b) == IF a <= b THEN a ELSE b

\* the loop of __init__ over zip(keys, block_shapes, cond_dims), from the
\* i-th triple on
RECURSIVE ExtendLayers(_, _, _, _, _, _, _)
ExtendLayers(layers, i, keys, block_shapes, cond_dims, dim, activation) ==
    IF i > Min2(Len(keys), Min2(Len(block_shapes), Len(cond_dims)))
    THEN layers
    ELSE ExtendLayers(
             layers \o <<BlockAutoregressiveLinear(keys[i], dim,
                                                   block_shapes[i],
                                                   cond_dims[i]),
                         activation>>,
             i + 1, keys, block_shapes, cond_dims, dim, activation)

\* layers[:-1]
DropLast(layers) == SubSeq(layers, 1, Len(layers) - 1)

\* __init__ without "remove last activation"
BNAFLayersKeepLast(key, dim, cond_dim, depth, block_dim) ==
    IF depth = 0
    THEN <<BlockAutoregressiveLinear(key, dim, <<1, 1>>, cond_dim)>>
    ELSE ExtendLayers(<<>>, 1, split(key, depth + 1),
                      <<<<block_dim, 1>>>>
                          \o Repeat(<<block_dim, block_dim>>, depth - 1)
                          \o <<<<1, block_dim>>>>,
                      <<cond_dim>> \o Repeat(0, depth), dim, _TanhBNAF(dim))

\* the layers __init__ builds, with the default activation
BNAFLayers(key, dim, cond_dim, depth, block_dim) ==
    IF depth = 0
    THEN <<BlockAutoregressiveLinear(key, dim, <<1, 1>>, cond_dim)>>
    ELSE DropLast(
             ExtendLayers(<<>>, 1, split(key, depth + 1),
                          <<<<block_dim, 1>>>>
                              \o Repeat(<<block_dim, block_dim>>, depth - 1)
                              \o <<<<1, block_dim>>>>,
                          <<cond_dim>> \o Repeat(0, depth), dim,
                          _TanhBNAF(dim)))

BNAFNew(key, dim, cond_dim, depth, block_dim) ==
    [type |-> "BlockAutoregressiveNetwork", dim |-> dim, depth |-> depth,
     layers |-> BNAFLayers(key, dim, cond_dim, depth, block_dim),
     cond_dim |-> cond_dim, block_dim |-> block_dim,
     activation |-> _TanhBNAF(dim)]

\* what a method call comes to: what it raised or returned, the layers it
\* called, and the block Jacobians it collected
Outcome(raised, ret, logdet, layer_calls, log_det_3ds, logdet_3d) ==
    [raised |-> raised, ret |-> ret, logdet |-> logdet,
     layer_calls |-> layer_calls, log_det_3ds |-> log_det_3ds,
     logdet_3d |-> logdet_3d]

\* the forward pass from the i-th layer on: layers[0](x, condition), then
\* layer(x) for the others
RECURSIVE Forward(_, _, _, _, _)
Forward(layers, i, x, condition, log_det_3ds) ==
    IF i > Len(layers) THEN [ok |-> TRUE, point |-> x, jacs |-> log_det_3ds,
                             layer_calls |-> i - 1]
    ELSE LET r == LayerCall(layers[i], x, IF i = 1 THEN condition ELSE None)
         IN  IF ~r.ok THEN [ok |-> FALSE, point |-> x, jacs |-> log_det_3ds,
                            layer_calls |-> i]
             ELSE Forward(layers, i + 1, r.point, condition,
                          Append(log_det_3ds, r.jac))

\* BlockAutoregressiveNetwork.transform
BNAFTransform(self, x, condition) ==
    LET f == Forward(self.layers, 1, x, condition, <<>>)
    IN  IF f.ok THEN Outcome("", f.point, 0, f.layer_calls, <<>>, NoArray)
        ELSE Outcome("TypeError", Input(0, 0), 0, f.layer_calls, <<>>,
                     NoArray)

\* the loop over reversed(log_det_3ds[:-1]), from the i-th Jacobian down
RECURSIVE FoldLogDet(_, _, _)
FoldLogDet(logdet, log_det_3ds, i) ==
    IF i < 1 THEN logdet
    ELSE FoldLogDet(logmatmulexp(logdet, log_det_3ds[i]), log_det_3ds, i - 1)

\* the loop with the arguments of logmatmulexp exchanged
RECURSIVE FoldLogDetSwapped(_, _, _)
FoldLogDetSwapped(logdet, log_det_3ds, i) ==
    IF i < 1 THEN logdet
    ELSE FoldLogDetSwapped(logmatmulexp(log_det_3ds[i], logdet), log_det_3ds,
                           i - 1)

BNAFTaldWith(self, x, condition, fold(_, _, _)) ==
    LET f == Forward(self.layers, 1, x, condition, <<>>)
        n == Len(f.jacs)
        logdet == fold(f.jacs[n], f.jacs, n - 1)
    IN  IF ~f.ok \/ logdet = Broken
        THEN Outcome("TypeError", Input(0, 0), 0, f.layer_calls, f.jacs,
                     NoArray)
        ELSE Outcome("", f.point, LogSum(logdet), f.layer_calls, f.jacs,
                     logdet)

BNAFTaldSwapped(self, x, condition) ==
    BNAFTaldWith(self, x, condition, FoldLogDetSwapped)

\* BlockAutoregressiveNetwork.transform_and_log_abs_det_jacobian
BNAFTald(self, x, condition) ==
    BNAFTaldWith(self, x, condition, FoldLogDet)

\* an inverse that runs the layers
BNAFInverseThroughLayers(self, args) ==
    IF Len(args) = 0 THEN Outcome("TypeError", Input(0, 0), 0, 0, <<>>, NoArray)
    ELSE BNAFTransform(self, args[1], None)

\* BlockAutoregressiveNetwork.inverse(*args, **kwargs)
BNAFInverse(self, args) ==
    Outcome("NotImplementedError", Input(0, 0), 0, 0, <<>>, NoArray)

\* BlockAutoregressiveNetwork.inverse_and_log_abs_det_jacobian(*args, **kwargs)
BNAFInverseAndLogDet(self, args) ==
    Outcome("NotImplementedError", Input(0, 0), 0, 0, <<>>, NoArray)

(***************************************************************************)
(* The caller's steps on Permute and Flip: p = Permute(permutation) comes  *)
(* first if it comes at all, and every method is called on point.          *)
(***************************************************************************)
\* p = Permute(permutation)
PermuteInit(permutation) ==
    /\ call.op = "none"
    /\ IF PermuteAssert(permutation)
       THEN /\ permute' = PermuteNew(permutation)
            /\ call' = Returned("Permute.__init__", permutation, EmptyArray,
                                EmptyArray)
       ELSE /\ permute' = NoObject
            /\ call' = Raised("Permute.__init__", permutation,
                              "AssertionError")
    /\ prev' = call
    /\ UNCHANGED <<chain, bnaf, arrays, point, cond, locals>>

HasPermute == permute.type = "Permute"

Dim == Size(permute.permutation)

\* the call op(point, cond) returned the array ret
Step(op, ret) ==
    /\ call' = Returned(op, point, cond, ret)
    /\ prev' = call
    /\ point' = ret
    /\ UNCHANGED <<permute, chain, bnaf, arrays, cond, locals>>

\* the call op(point, cond) returned the pair (point, logdet)
StepPair(op, pair) ==
    /\ call' = ReturnedPair(op, point, cond, pair)
    /\ prev' = call
    /\ point' = pair[1]
    /\ UNCHANGED <<permute, chain, bnaf, arrays, cond, locals>>

CallPermuteTransform ==
    /\ Running /\ HasPermute /\ Size(point) = Dim
    /\ Step("Permute.transform",
            PermuteTransform(permute, point, cond))

CallPermuteTald ==
    /\ Running /\ HasPermute /\ Size(point) = Dim
    /\ StepPair("Permute.transform_and_log_abs_det_jacobian",
                PermuteTald(permute, point, cond))

CallPermuteInverse ==
    /\ Running /\ HasPermute /\ Size(point) = Dim
    /\ Step("Permute.inverse",
            PermuteInverse(permute, point, cond))

CallFlipTransform ==
    /\ Running
    /\ Step("Flip.transform", FlipTransform(point, cond))

CallFlipTald ==
    /\ Running
    /\ StepPair("Flip.transform_and_log_abs_det_jacobian",
                FlipTald(point, cond))

CallFlipInverse ==
    /\ Running
    /\ Step("Flip.inverse", FlipInverse(point, cond))

InitPermute ==
    /\ permute = NoObject
    /\ chain = ChainNew(<<>>)
    /\ point \in UNION {Points(n) : n \in 0..MaxDim}
    /\ cond \in Conditions
    /\ bnaf = NoObject
    /\ arrays = NoArrays
    /\ locals = NoLocals
    /\ call = NoCall
    /\ prev = NoCall

NextPermute ==
    \/ \E permutation \in IndexArrays : PermuteInit(permutation)
    \/ CallPermuteTransform
    \/ CallPermuteTald
    \/ CallPermuteInverse
    \/ CallFlipTransform
    \/ CallFlipTald
    \/ CallFlipInverse

SpecPermute == InitPermute /\ [][NextPermute]_vars

(***************************************************************************)
(* Properties of Permute and Flip, under SpecPermute.                      *)
(***************************************************************************)
\* a contains every index of [0, len(a)) exactly once
IsPermutation(a) ==
    \A k \in 0..(Size(a) - 1) : Cardinality({i \in DOMAIN a : a[i] = k}) = 1

\* the arrays [a, b, c] and [c, a, b] of the documented example
ABC == arange(3)
CAB == [i \in 0..2 |-> (i + 2) % 3]

\* C3: for a valid permutation p, transform(x)[i] = x[p[i]], the stored
\* inverse_permutation q = argsort(p) satisfies q[p[i]] = i and p[q[i]] = i,
\* inverse undoes transform and transform undoes inverse, whatever the
\* condition; Permute([2,0,1]) maps [a,b,c] to [c,a,b] and back.
C3_PermuteInvertible ==
    HasPermute =>
        LET p == permute.permutation
            q == permute.inverse_permutation
        IN  /\ \A i \in DOMAIN p : q[p[i]] = i /\ p[q[i]] = i
            /\ call.op = "Permute.transform" =>
                   /\ DOMAIN call.ret = DOMAIN call.x
                   /\ \A i \in DOMAIN p : call.ret[i] = call.x[p[i]]
            /\ (call.op = "Permute.inverse" /\ prev.op = "Permute.transform")
                   => call.ret = prev.x
            /\ (call.op = "Permute.transform" /\ prev.op = "Permute.inverse")
                   => call.ret = prev.x
            /\ (p = CAB /\ call.op = "Permute.transform" /\ call.x = ABC)
                   => call.ret = CAB
            /\ (p = CAB /\ call.op = "Permute.inverse" /\ call.x = CAB)
                   => call.ret = ABC

\* Permute([2,0,1]) took [a,b,c] to [c,a,b] and its inverse took that back,
\* under a non-empty condition
C3_Witness ==
    /\ HasPermute /\ permute.permutation = CAB
    /\ permute.inverse_permutation # permute.permutation
    /\ prev.op = "Permute.transform" /\ prev.x = ABC /\ prev.ret = CAB
    /\ call.op = "Permute.inverse" /\ call.x = CAB /\ call.ret = ABC
    /\ call.condition # EmptyArray

\* C4: Permute(a) raises at construction (the assert of __init__; the
\* specification's InvalidPermutationError), and leaves no instance, exactly
\* when a does not contain every index of [0, len(a)) once; for a valid
\* permutation it does not raise and the instance holds a.
C4_InvalidPermutationRejected ==
    call.op = "Permute.__init__" =>
        IF IsPermutation(call.x)
        THEN call.raised = "" /\ HasPermute /\ permute.permutation = call.x
        ELSE call.raised = "AssertionError" /\ permute = NoObject

\* Permute([0,0,1]) raised and produced no instance
C4_Witness ==
    /\ call.op = "Permute.__init__"
    /\ call.x = [i \in 0..2 |-> IF i = 2 THEN 1 ELSE 0]
    /\ call.raised = "AssertionError"
    /\ permute = NoObject

\* C10: Permute.transform_and_log_abs_det_jacobian returns the point
\* Permute.transform returns and a log-determinant of exactly 0;
\* Flip.transform_and_log_abs_det_jacobian returns the reversed input and
\* exactly 0; Flip can be called with no construction step before it, never
\* raises, and Flip.inverse undoes Flip.transform in every dimension.
C10_ZeroLogDet ==
    /\ call.op = "Permute.transform_and_log_abs_det_jacobian" =>
           /\ call.logdet = 0
           /\ call.ret = PermuteTransform(permute, call.x, call.condition)
           /\ call.ret = PermuteTransform(permute, call.x, EmptyArray)
    /\ call.op = "Flip.transform_and_log_abs_det_jacobian" =>
           /\ call.logdet = 0
           /\ DOMAIN call.ret = DOMAIN call.x
           /\ \A i \in DOMAIN call.x :
                  call.ret[i] = call.x[Size(call.x) - 1 - i]
    /\ (call.op = "Flip.inverse" /\ prev.op = "Flip.transform")
           => call.ret = prev.x
    /\ call.op \in {"Flip.transform", "Flip.inverse",
                     "Flip.transform_and_log_abs_det_jacobian"}
           => call.raised = ""
    /\ Running => ENABLED CallFlipTald

\* a Permute that moves entries returned logdet 0, and Flip, called on the
\* result, reversed three distinct entries and returned logdet 0
C10_Witness ==
    /\ HasPermute /\ permute.permutation = CAB
    /\ prev.op = "Permute.transform_and_log_abs_det_jacobian"
    /\ prev.x = ABC /\ prev.ret = CAB /\ prev.logdet = 0
    /\ call.op = "Flip.transform_and_log_abs_det_jacobian"
    /\ call.ret = flip(CAB) /\ call.ret # call.x /\ call.logdet = 0

(***************************************************************************)
(* The caller's steps on a Chain.                                          *)
(***************************************************************************)
\* the Permute objects construction can produce
Permutes ==
    {PermuteNew(p) : p \in {q \in IndexArrays : PermuteAssert(q)}}

\* the lists of at most MaxChain children built from Flip(), the Permute p
\* and another bijection
ChildLists(p) ==
    UNION {[1..n -> {FlipNew, p, OpaqueNew}] : n \in 0..MaxChain}

CallChainTransform ==
    /\ Running
    /\ Step("Chain.transform",
            ChainTransform(chain, point, cond))

CallChainTald ==
    /\ Running
    /\ StepPair("Chain.transform_and_log_abs_det_jacobian",
                ChainTald(chain, point, cond))

CallChainInverse ==
    /\ Running
    /\ Step("Chain.inverse",
            ChainInverse(chain, point, cond))

\* after p = Permute(...) and chain = Chain([...]), with an input of p's
\* dimension
InitChain ==
    /\ permute \in Permutes
    /\ chain \in {ChainNew(bs) : bs \in ChildLists(permute)}
    /\ point \in BinaryPoints(Dim)
    /\ cond \in Conditions
    /\ bnaf = NoObject
    /\ arrays = NoArrays
    /\ locals = NoLocals
    /\ call = NoCall
    /\ prev = NoCall

NextChain ==
    \/ CallChainTransform
    \/ CallChainTald
    \/ CallChainInverse

SpecChain == InitChain /\ [][NextChain]_vars

(***************************************************************************)
(* Properties of Chain, under SpecChain.                                   *)
(***************************************************************************)
\* z_i: the point after the first i children, each applied by its
\* transform_and_log_abs_det_jacobian
RECURSIVE PointAfter(_, _, _, _)
PointAfter(bijections, i, x, c) ==
    IF i = 0 THEN x
    ELSE BijTald(bijections[i], PointAfter(bijections, i - 1, x, c), c)[1]

\* l_i: the i-th child's log-determinant at z_(i-1)
LogDetAt(bijections, i, x, c) ==
    BijTald(bijections[i], PointAfter(bijections, i - 1, x, c), c)[2]

\* C1: Chain.inverse, called with the same condition on what
\* Chain.transform returned for x, returns x, for every list of invertible
\* children, the empty list included.
C1_ChainRoundTrip ==
    (/\ call.op = "Chain.inverse"
     /\ prev.op = "Chain.transform"
     /\ prev.condition = call.condition) => call.ret = prev.x

\* a round trip through a chain of two children that do not commute, which
\* the inverses taken in list order would not have undone
C1_Witness ==
    /\ call.op = "Chain.inverse" /\ prev.op = "Chain.transform"
    /\ call.condition # EmptyArray /\ prev.condition = call.condition
    /\ Len(chain.bijections) = 2
    /\ chain.bijections[1].type = "Permute"
    /\ chain.bijections[2].type = "Flip"
    /\ prev.ret # prev.x
    /\ call.ret = prev.x
    /\ ChainInverseForward(chain, call.x, call.condition) # prev.x

\* C2: Chain.transform_and_log_abs_det_jacobian(x, c) returns (z_n, s) with
\* z_0 = x, (z_i, l_i) the i-th child's result at (z_(i-1), c), and s the
\* sum of the l_i; (x, 0) for the empty chain; and z_n is what
\* Chain.transform(x, c) returns.
C2_ChainAdditivity ==
    call.op = "Chain.transform_and_log_abs_det_jacobian" =>
        LET bs == chain.bijections
            n == Len(bs)
        IN  /\ call.ret = PointAfter(bs, n, call.x, call.condition)
            /\ call.logdet =
                   SumTo([i \in 0..(n - 1) |->
                              LogDetAt(bs, i + 1, call.x, call.condition)], n)
            /\ n = 0 => call.ret = call.x /\ call.logdet = 0
            /\ call.ret = ChainTransform(chain, call.x, call.condition)

\* a chain of two children whose second log-determinant depends on the
\* point the first child produced
C2_Witness ==
    /\ call.op = "Chain.transform_and_log_abs_det_jacobian"
    /\ call.condition # EmptyArray
    /\ Len(chain.bijections) = 2
    /\ chain.bijections[1].type = "Opaque"
    /\ chain.bijections[2].type = "Opaque"
    /\ call.logdet # ChainTaldAtInput(chain, call.x, call.condition)[2]
    /\ call.logdet =
           OpaqueLogDet(call.x, call.condition)
           + OpaqueLogDet(OpaqueTransform(call.x, call.condition),
                          call.condition)

(***************************************************************************)
(* The caller's steps on a BlockAutoregressiveNetwork: the constructor     *)
(* first, then methods on the caller's input.                              *)
(***************************************************************************)
\* bnaf = BlockAutoregressiveNetwork(key, dim, cond_dim, depth, block_dim)
BNAFInit(key, dim, cond_dim, depth, block_dim) ==
    /\ call.op = "none"
    /\ bnaf' = BNAFNew(key, dim, cond_dim, depth, block_dim)
    /\ call' = Returned("BlockAutoregressiveNetwork.__init__", EmptyArray,
                        EmptyArray, EmptyArray)
    /\ prev' = call
    /\ UNCHANGED <<permute, chain, arrays, point, cond, locals>>

HasBNAF == bnaf.type = "BlockAutoregressiveNetwork"

\* the call op(x, ...) came to the outcome o
StepOutcome(op, x, o) ==
    /\ call' = [op |-> op, x |-> x, condition |-> cond, ret |-> o.ret,
                logdet |-> o.logdet, raised |-> o.raised]
    /\ locals' = [layer_calls |-> o.layer_calls, returned |-> o.raised = "",
                  log_det_3ds |-> o.log_det_3ds, logdet_3d |-> o.logdet_3d,
                  n_blocks |-> 0]
    /\ prev' = call
    /\ UNCHANGED <<permute, chain, bnaf, arrays, point, cond>>

\* the input and the condition have the dimensions the network was built for
FitsBNAF == point.size = bnaf.dim /\ Size(cond) = bnaf.cond_dim

CallBNAFTransform ==
    /\ Running /\ HasBNAF /\ FitsBNAF
    /\ StepOutcome("BlockAutoregressiveNetwork.transform", point,
                   BNAFTransform(bnaf, point, Given(cond)))

CallBNAFTald ==
    /\ Running /\ HasBNAF /\ FitsBNAF
    /\ StepOutcome(
           "BlockAutoregressiveNetwork.transform_and_log_abs_det_jacobian",
           point, BNAFTald(bnaf, point, Given(cond)))

\* the argument lists tried on the inverse methods: none, a point, a point
\* and a condition, of any dimensions
ArgLists == {<<>>, <<point>>, <<point, Given(cond)>>}

CallBNAFInverse(args) ==
    /\ Running /\ HasBNAF
    /\ StepOutcome("BlockAutoregressiveNetwork.inverse", args,
                   BNAFInverse(bnaf, args))

CallBNAFInverseAndLogDet(args) ==
    /\ Running /\ HasBNAF
    /\ StepOutcome(
           "BlockAutoregressiveNetwork.inverse_and_log_abs_det_jacobian",
           args, BNAFInverseAndLogDet(bnaf, args))

InitBNAF ==
    /\ permute = NoObject
    /\ chain = ChainNew(<<>>)
    /\ bnaf = NoObject
    /\ arrays = NoArrays
    /\ point \in {Input(n, src) : n \in 1..MaxNetDim, src \in 0..1}
    /\ cond \in Conditions
    /\ call = NoCall
    /\ prev = NoCall
    /\ locals = NoLocals

NextBNAF ==
    \/ \E key \in 0..MaxKey, dim \in 1..MaxNetDim, cond_dim \in 0..1,
          depth \in 0..MaxDepth, block_dim \in 1..MaxBlockDim :
           BNAFInit(key, dim, cond_dim, depth, block_dim)
    \/ CallBNAFTransform
    \/ CallBNAFTald
    \/ \E args \in ArgLists : CallBNAFInverse(args)
    \/ \E args \in ArgLists : CallBNAFInverseAndLogDet(args)

SpecBNAF == InitBNAF /\ [][NextBNAF]_vars

(***************************************************************************)
(* Properties of the network, under SpecBNAF.                              *)
(***************************************************************************)
IsLinear(layer) == layer.type = "BlockAutoregressiveLinear"

\* C5: inverse and inverse_and_log_abs_det_jacobian raise (the code's
\* NotImplementedError; the specification's UnsupportedOperationError) for
\* every network and every argument list, call no layer and return nothing.
C5_NoInverse ==
    call.op \in {"BlockAutoregressiveNetwork.inverse",
                 "BlockAutoregressiveNetwork.inverse_and_log_abs_det_jacobian"}
        => /\ call.raised = "NotImplementedError"
           /\ ~locals.returned
           /\ locals.layer_calls = 0

\* inverse raised on the network with depth 0, dim 3, block_dim 1 and
\* cond_dim 0, called on an input that transform accepts
C5_Witness ==
    /\ call.op = "BlockAutoregressiveNetwork.inverse"
    /\ call.raised = "NotImplementedError"
    /\ bnaf.depth = 0 /\ bnaf.dim = 3 /\ bnaf.block_dim = 1
    /\ bnaf.cond_dim = 0
    /\ call.x = <<point>> /\ FitsBNAF
    /\ prev.op = "BlockAutoregressiveNetwork.transform" /\ prev.raised = ""

\* C6: with depth 0 the layers are one masked-linear layer of block shape
\* (1, 1) with cond_dim conditioning inputs; with depth > 0 there are
\* 2 * depth + 1 layers, masked-linear at even (0-based) positions and the
\* activation at odd ones, the first and the last masked-linear, the block
\* shapes (block_dim, 1), depth - 1 times (block_dim, block_dim), then
\* (1, block_dim), and only the first has cond_dim conditioning inputs.
C6_LayerStack ==
    HasBNAF =>
        LET layers == bnaf.layers
            n == Len(layers)
            depth == bnaf.depth
            \* the k-th masked-linear layer, k = 0 .. depth
            linear(k) == layers[2 * k + 1]
        IN  /\ depth = 0 =>
                /\ n = 1 /\ IsLinear(layers[1])
                /\ layers[1].block_shape = <<1, 1>>
                /\ layers[1].cond_dim = bnaf.cond_dim
            /\ depth > 0 =>
                /\ n = 2 * depth + 1
                /\ \A p \in 0..(n - 1) :
                       IF p % 2 = 0 THEN IsLinear(layers[p + 1])
                       ELSE layers[p + 1] = bnaf.activation
                /\ IsLinear(layers[1]) /\ IsLinear(layers[n])
                /\ linear(0).block_shape = <<bnaf.block_dim, 1>>
                /\ \A k \in 1..(depth - 1) :
                       linear(k).block_shape
                           = <<bnaf.block_dim, bnaf.block_dim>>
                /\ linear(depth).block_shape = <<1, bnaf.block_dim>>
                /\ linear(0).cond_dim = bnaf.cond_dim
                /\ \A k \in 1..depth : linear(k).cond_dim = 0
            /\ \A p \in 1..n : IsLinear(layers[p]) => layers[p].n_blocks = bnaf.dim

\* a network of depth 2 with five layers, a middle layer of square blocks
\* and a condition on the first layer alone
C6_Witness ==
    /\ HasBNAF /\ bnaf.depth = 2 /\ bnaf.block_dim = 2 /\ bnaf.cond_dim = 1
    /\ Len(bnaf.layers) = 5
    /\ bnaf.layers[3].block_shape = <<2, 2>>
    /\ bnaf.layers[4].type = "_TanhBNAF"
    /\ bnaf.layers[5].block_shape = <<1, 2>>
    /\ bnaf.layers[1].cond_dim = 1 /\ bnaf.layers[5].cond_dim = 0

\* the product of the blocks of x and y, entry by entry
BlockProduct(x, y) ==
    Array3(x.shape[1], x.shape[2], y.shape[3],
           LAMBDA b, i, j :
               SumOf(LAMBDA k : x.at[<<b, i, k>>] * y.at[<<b, k, j>>],
                     x.shape[3]))

\* J_n . J_(n-1) . ... . J_i
RECURSIVE ProductDownTo(_, _)
ProductDownTo(J, i) ==
    IF i = Len(J) THEN J[i] ELSE BlockProduct(ProductDownTo(J, i + 1), J[i])

\* C7: transform_and_log_abs_det_jacobian collects one block Jacobian per
\* layer, J_1 from the first layer (the only one given the condition), and
\* folds them from J_n down to J_1; at every step the running result has
\* shape (dim, 1, k) and meets a Jacobian of shape (dim, k, m); the result
\* is the product J_n ... J_1, of shape (dim, 1, 1); the returned logdet
\* is the sum of its entries and the returned point is transform's.
C7_LogDetFold ==
    call.op = "BlockAutoregressiveNetwork.transform_and_log_abs_det_jacobian"
        => LET J == locals.log_det_3ds
               n == Len(J)
           IN  /\ call.raised = "" /\ locals.returned
               /\ n = Len(bnaf.layers) /\ locals.layer_calls = n
               /\ \A i \in 1..n :
                      J[i] = LayerCall(bnaf.layers[i],
                                       IF i = 1 THEN call.x
                                       ELSE Forward(SubSeq(bnaf.layers, 1,
                                                           i - 1),
                                                    1, call.x,
                                                    Given(call.condition),
                                                    <<>>).point,
                                       IF i = 1 THEN Given(call.condition)
                                       ELSE None).jac
               /\ J[n].shape[1] = bnaf.dim /\ J[n].shape[2] = 1
               /\ \A i \in 1..(n - 1) :
                      /\ J[i].shape[1] = bnaf.dim
                      /\ J[i].shape[2] = J[i + 1].shape[3]
                      /\ ProductDownTo(J, i + 1).shape
                             = <<bnaf.dim, 1, J[i].shape[2]>>
               /\ locals.logdet_3d = ProductDownTo(J, 1)
               /\ locals.logdet_3d.shape = <<bnaf.dim, 1, 1>>
               /\ call.logdet.terms
                      = [b \in 1..bnaf.dim |->
                            locals.logdet_3d.at[<<b - 1, 0, 0>>]]
               /\ call.ret = BNAFTransform(bnaf, call.x,
                                           Given(call.condition)).ret

\* a network of depth 2 and dim 2 with blocks of side 2 and a condition
\* folded five Jacobians into two entries that are not both 1
C7_Witness ==
    /\ call.op = "BlockAutoregressiveNetwork.transform_and_log_abs_det_jacobian"
    /\ call.raised = ""
    /\ bnaf.depth = 2 /\ bnaf.dim = 2 /\ bnaf.block_dim = 2
    /\ bnaf.cond_dim = 1
    /\ Len(locals.log_det_3ds) = 5
    /\ locals.log_det_3ds[2].at[<<0, 0, 1>>] = NegInf
    /\ locals.logdet_3d.shape = <<2, 1, 1>>
    /\ call.logdet.terms[1] > 1
    /\ locals.logdet_3d
           # FoldLogDetSwapped(locals.log_det_3ds[5], locals.log_det_3ds, 4)

(***************************************************************************)
(* The caller's steps on the block algebra.  One caller holds three block  *)
(* Jacobians A, B, C whose shapes fit and composes them both ways; another *)
(* holds none and calls _3d_log_det once.                                  *)
(***************************************************************************)
\* a block Jacobian of shape (n, r, c): the one of a masked-linear layer,
\* or, square, the one of an activation
BlockJacobians(n, r, c) ==
    {DenseJacobian(seed, n, r, c) : seed \in 0..MaxKey}
    \cup (IF r = c
          THEN {_3d_log_det(SeedVals(seed, n * r), n) : seed \in 0..MaxKey}
          ELSE {})

Sides == 1..MaxBlockDim

HoldsArrays == IsArray3(arrays.A)

\* AB = logmatmulexp(A, B)
ComposeAB ==
    /\ Running /\ HoldsArrays /\ arrays.AB = NoArray
    /\ arrays' = [arrays EXCEPT !.AB = logmatmulexp(arrays.A, arrays.B)]
    /\ UNCHANGED <<permute, chain, bnaf, point, cond, call, prev, locals>>

\* AB_C = logmatmulexp(AB, C)
ComposeAB_C ==
    /\ Running /\ arrays.AB # NoArray /\ arrays.AB_C = NoArray
    /\ arrays' = [arrays EXCEPT !.AB_C = logmatmulexp(arrays.AB, arrays.C)]
    /\ UNCHANGED <<permute, chain, bnaf, point, cond, call, prev, locals>>

\* BC = logmatmulexp(B, C)
ComposeBC ==
    /\ Running /\ arrays.AB_C # NoArray /\ arrays.BC = NoArray
    /\ arrays' = [arrays EXCEPT !.BC = logmatmulexp(arrays.B, arrays.C)]
    /\ UNCHANGED <<permute, chain, bnaf, point, cond, call, prev, locals>>

\* A_BC = logmatmulexp(A, BC)
ComposeA_BC ==
    /\ Running /\ arrays.BC # NoArray /\ arrays.A_BC = NoArray
    /\ arrays' = [arrays EXCEPT !.A_BC = logmatmulexp(arrays.A, arrays.BC)]
    /\ UNCHANGED <<permute, chain, bnaf, point, cond, call, prev, locals>>

\* log_det = _3d_log_det(vals, n_blocks)
Call3dLogDet(vals, n_blocks) ==
    /\ call.op = "none" /\ ~HoldsArrays
    /\ LET log_det == _3d_log_det(vals, n_blocks)
       IN  call' = [op |-> "_3d_log_det", x |-> vals,
                    condition |-> EmptyArray, ret |-> log_det, logdet |-> 0,
                    raised |-> IF log_det = Broken THEN "TypeError" ELSE ""]
    /\ locals' = [NoLocals EXCEPT !.n_blocks = n_blocks]
    /\ prev' = call
    /\ UNCHANGED <<permute, chain, bnaf, arrays, point, cond>>

\* the flat vectors handed to _3d_log_det
FlatVectors == UNION {Arrays(n, {1, 2}) : n \in 0..MaxFlat}

InitAlgebra ==
    /\ permute = NoObject
    /\ chain = ChainNew(<<>>)
    /\ bnaf = NoObject
    /\ point = EmptyArray
    /\ cond = EmptyArray
    /\ call = NoCall
    /\ prev = NoCall
    /\ locals = NoLocals
    /\ \/ arrays = NoArrays
       \/ \E n \in 1..MaxNetDim, r \in Sides, k \in Sides, m \in Sides,
             c \in Sides :
             \E A \in BlockJacobians(n, r, k), B \in BlockJacobians(n, k, m),
                C \in BlockJacobians(n, m, c) :
                 arrays = [NoArrays EXCEPT !.A = A, !.B = B, !.C = C]

NextAlgebra ==
    \/ ComposeAB
    \/ ComposeAB_C
    \/ ComposeBC
    \/ ComposeA_BC
    \/ \E vals \in FlatVectors, n_blocks \in 1..MaxNetDim :
           Call3dLogDet(vals, n_blocks)

SpecAlgebra == InitAlgebra /\ [][NextAlgebra]_vars

(***************************************************************************)
(* Properties of the block algebra, under SpecAlgebra.                     *)
(***************************************************************************)
\* C8: for n_blocks >= 1 and vals of length n_blocks * d, _3d_log_det
\* returns an array of shape (n_blocks, d, d) with vals[b*d + i] at
\* (b, i, i) and -inf off the diagonal, so that every value of vals
\* appears exactly once and n_blocks * d is the length of vals.
C8_ExpandDiagonal ==
    (call.op = "_3d_log_det" /\ Size(call.x) % locals.n_blocks = 0) =>
        LET n == locals.n_blocks
            d == Size(call.x) \div n
            r == call.ret
        IN  /\ call.raised = ""
            /\ r.shape = <<n, d, d>>
            /\ n * d = Size(call.x)
            /\ DOMAIN r.at = Idx(n) \X Idx(d) \X Idx(d)
            /\ \A b \in Idx(n), i \in Idx(d) :
                   r.at[<<b, i, i>>] = call.x[b * d + i]
            /\ \A b \in Idx(n), i \in Idx(d), j \in Idx(d) :
                   i # j => r.at[<<b, i, j>>] = NegInf
            /\ \A q \in DOMAIN call.x :
                   Cardinality({t \in DOMAIN r.at :
                                   /\ t[2] = t[3]
                                   /\ t[1] * d + t[2] = q
                                   /\ r.at[t] = call.x[q]}) = 1

\* two blocks of side 2 were built from four values that are not all equal
C8_Witness ==
    /\ call.op = "_3d_log_det" /\ call.raised = ""
    /\ locals.n_blocks = 2 /\ Size(call.x) = 4
    /\ call.x[0] # call.x[1] /\ call.x[1] # call.x[2]
    /\ call.ret.shape = <<2, 2, 2>>
    /\ call.ret.at[<<1, 1, 1>>] = call.x[3]
    /\ call.ret.at[<<1, 0, 1>>] = NegInf

UpperCase ==
    <<"A", "B", "C", "D", "E", "F", "G", "H", "I", "J", "K", "L", "M",
      "N", "O", "P", "Q", "R", "S", "T", "U", "V", "W", "X", "Y", "Z">>

LowerCase ==
    <<"a", "b", "c", "d", "e", "f", "g", "h", "i", "j", "k", "l", "m",
      "n", "o", "p", "q", "r", "s", "t", "u", "v", "w", "x", "y", "z">>

\* str.lower() on one character
LowerChar(ch) ==
    IF \E k \in DOMAIN UpperCase : UpperCase[k] = ch
    THEN LowerCase[CHOOSE k \in DOMAIN UpperCase : UpperCase[k] = ch]
    ELSE ch

\* strategy.lower()
lower(str) == [k \in 1..Len(str) |-> LowerChar(str[k])]

\* "flip" and "random"
StrFlip == <<"f", "l", "i", "p">>
StrRandom == <<"r", "a", "n", "d", "o", "m">>

PyList(items) == [kind |-> "list", items |-> items]
PyNone == [kind |-> "None", items |-> <<>>]

\* no value: the call raised
Nothing == [kind |-> "", items |-> <<>>]

\* what a call of intertwine_permute comes to
IPReturn(value) == [raised |-> "", ret |-> value]
IPRaise(exc) == [raised |-> exc, ret |-> Nothing]

\* random.permutation(key, permutations, 1, True) on n rows arange(dim):
\* every row permuted on its own, as key determines
RandomPermutation(key, n, dim) ==
    [row \in 1..n |-> [i \in Idx(dim) |-> (i + key + row) % dim]]

\* for b in bijection_list: bijections.extend([b, Flip()]), from the i-th
\* bijection on
RECURSIVE FlipLoop(_, _, _)
FlipLoop(bijections, bijection_list, i) ==
    IF i > Len(bijection_list) THEN bijections
    ELSE FlipLoop(bijections \o <<bijection_list[i], FlipNew>>,
                  bijection_list, i + 1)

\* for bijection, permutation in zip(bijection_list, permutations):
\* bijections.extend(bijection, Permute(permutation)).  The arguments are
\* evaluated, then list.extend, which takes one argument, is given two
RandomLoop(bijections, bijection_list, permutations) ==
    IF Min2(Len(bijection_list), Len(permutations)) = 0
    THEN IPReturn(PyList(DropLast(bijections)))
    ELSE IF ~PermuteAssert(permutations[1]) THEN IPRaise("AssertionError")
         ELSE IPRaise("TypeError")

\* intertwine_permute(bijection_list, strategy, key, dim)
intertwine_permute(bijection_list, strategy, key, dim) ==
    IF lower(strategy) = StrFlip
    THEN IPReturn(PyList(DropLast(FlipLoop(<<>>, bijection_list, 1))))
    ELSE IF lower(strategy) = StrRandom
    THEN \* jnp.row_stack of no rows; jnp.arange(None); a key that is None
         IF Len(bijection_list) = 0 THEN IPRaise("ValueError")
         ELSE IF ~dim.given THEN IPRaise("TypeError")
         ELSE IF ~key.given THEN IPRaise("TypeError")
         ELSE RandomLoop(<<>>, bijection_list,
                         RandomPermutation(key.value, Len(bijection_list),
                                           dim.value))
    \* ValueError(...) is built and dropped: the function ends, returning
    \* None
    ELSE IPReturn(PyNone)

(***************************************************************************)
(* The caller's step on intertwine_permute: one call on the caller's list. *)
(***************************************************************************)
\* the strategies tried: both names in several casings, and others
Strategies ==
    {StrFlip, <<"F", "l", "i", "p">>, <<"F", "L", "I", "P">>,
     StrRandom, <<"R", "a", "n", "d", "o", "m">>,
     <<"R", "A", "N", "D", "O", "M">>,
     <<>>, <<"f", "l", "o", "p">>, <<"n", "o", "n", "e">>,
     <<"s", "h", "u", "f", "f", "l", "e">>}

Keys == {None} \cup {Given(k) : k \in 0..MaxKey}

Dims == {None} \cup {Given(d) : d \in 1..MaxDim}

\* result = intertwine_permute(bijection_list, strategy, key, dim)
CallIntertwinePermute ==
    /\ call.op = "none"
    /\ LET o == intertwine_permute(locals.bijection_list, locals.strategy,
                                   locals.key, locals.dim)
       IN  call' = [op |-> "intertwine_permute",
                    x |-> locals.bijection_list, condition |-> EmptyArray,
                    ret |-> o.ret, logdet |-> 0, raised |-> o.raised]
    /\ prev' = call
    /\ UNCHANGED <<permute, chain, bnaf, arrays, point, cond, locals>>

InitIntertwine ==
    /\ permute \in {PermuteNew(flip(arange(n))) : n \in 2..MaxDim}
    /\ locals \in [bijection_list : ChildLists(permute),
                   strategy : Strategies, key : Keys, dim : Dims]
    /\ chain = ChainNew(<<>>)
    /\ bnaf = NoObject
    /\ arrays = NoArrays
    /\ point = EmptyArray
    /\ cond = EmptyArray
    /\ call = NoCall
    /\ prev = NoCall

NextIntertwine == CallIntertwinePermute

SpecIntertwine == InitIntertwine /\ [][NextIntertwine]_vars

(***************************************************************************)
(* Properties of intertwine_permute, under SpecIntertwine.                 *)
(***************************************************************************)
\* the strategy names the call was given, lowered
Strategy == lower(locals.strategy)

\* C11: for the strategy "flip" or "random" in any casing (with a key and
\* a dim for "random") and a list of n >= 1 bijections, intertwine_permute
\* returns a list of length 2n - 1 with b_1, ..., b_n in order at the even
\* (0-based) positions and, at the odd ones, Flip for "flip" and Permute
\* of a valid permutation of [0, dim) for "random"; nothing follows the
\* last bijection and the list given is left as it was.
C11_IntertwineAddsPermutations ==
    (/\ call.op = "intertwine_permute"
     /\ Strategy \in {StrFlip, StrRandom}
     /\ Len(call.x) >= 1
     /\ Strategy = StrRandom => locals.key.given /\ locals.dim.given)
        => LET n == Len(call.x)
               items == call.ret.items
           IN  /\ call.raised = ""
               /\ call.ret.kind = "list"
               /\ Len(items) = 2 * n - 1
               /\ \A i \in 1..n : items[2 * i - 1] = call.x[i]
               /\ \A i \in 1..(n - 1) :
                      IF Strategy = StrFlip THEN items[2 * i] = FlipNew
                      ELSE /\ items[2 * i].type = "Permute"
                           /\ Size(items[2 * i].permutation)
                                  = locals.dim.value
                           /\ IsPermutation(items[2 * i].permutation)
               /\ locals.bijection_list = call.x

\* C12: called with a strategy that, lowered, is neither "flip" nor
\* "random", intertwine_permute raises ValueError and returns no value to
\* the caller: not None, and no list.
C12_StrategyValidated ==
    (/\ call.op = "intertwine_permute"
     /\ Strategy \notin {StrFlip, StrRandom})
        => /\ call.raised = "ValueError"
           /\ call.ret = Nothing

====
